---- MODULE Spec2Model ----
(***************************************************************************)
(* pwacompat.js: a page script that reads the web app manifest and adds    *)
(* legacy meta and link tags to the document head, and that, for a page    *)
(* running as an iOS home screen app, keeps same-origin clicks inside the  *)
(* window and returns to the start URL on the first load of a session.     *)
(*                                                                         *)
(* JavaScript values are tagged records.  A string is a sequence of        *)
(* symbols: a symbol is one character the script inspects (a digit, "#",   *)
(* "?", "i", "d", ...) or a chunk of characters it never looks into.       *)
(* A JavaScript object is a record holding only the keys that are present. *)
(***************************************************************************)
EXTENDS Integers, Sequences, FiniteSets, TLC

\* ------------------------------------------------------------------------
\* Bounds of the model
\* ------------------------------------------------------------------------
MaxIcons == 3      \* longest manifest icons array
MaxApps == 2       \* longest related_applications array
MaxRuns == 2       \* executions of the script on one page (script tags)

\* ------------------------------------------------------------------------
\* JavaScript values
\* ------------------------------------------------------------------------
Undefined == [t |-> "undefined"]
Null == [t |-> "null"]
Str(s) == [t |-> "string", s |-> s]
Bool(b) == [t |-> "boolean", b |-> b]
Arr(a) == [t |-> "array", a |-> a]
\* the string that JSON.stringify gives for v
JSONText(v) == [t |-> "string", json |-> v]

EmptyObject == [x \in {} |-> Undefined]
Get(o, k) == IF k \in DOMAIN o THEN o[k] ELSE Undefined
Put(o, k, v) == [x \in DOMAIN o \cup {k} |-> IF x = k THEN v ELSE o[x]]
Delete(o, k) == [x \in DOMAIN o \ {k} |-> o[x]]

\* an object is a record of its keys and carries no tag
IsObject(v) == "t" \notin DOMAIN v

Truthy(v) ==
  CASE IsObject(v) -> TRUE
    [] v.t = "undefined" -> FALSE
    [] v.t = "null" -> FALSE
    [] v.t = "boolean" -> v.b
    [] v.t = "string" -> IF "s" \in DOMAIN v THEN v.s # <<>> ELSE TRUE
    [] OTHER -> TRUE

\* a || b
OrElse(a, b) == IF Truthy(a) THEN a ELSE b

\* String(v) for the values given to setAttribute
StringOf(v) ==
  CASE v.t = "undefined" -> <<"undefined">>
    [] v.t = "null" -> <<"null">>
    [] v.t = "boolean" -> IF v.b THEN <<"true">> ELSE <<"false">>
    [] OTHER -> v.s

\* ------------------------------------------------------------------------
\* String functions
\* ------------------------------------------------------------------------
Digits == <<"0", "1", "2", "3", "4", "5", "6", "7", "8", "9">>
IsDigit(c) == \E i \in 1..10 : Digits[i] = c
DigitVal(c) == (CHOOSE i \in 1..10 : Digits[i] = c) - 1

\* s.indexOf(c), 1-based, 0 when c does not occur
IndexOf(s, c) ==
  IF \E i \in 1..Len(s) : s[i] = c
  THEN CHOOSE i \in 1..Len(s) : s[i] = c /\ \A j \in 1..(i - 1) : s[j] # c
  ELSE 0

\* length of the run of digits of s that starts at position i
RECURSIVE DigitRun(_, _)
DigitRun(s, i) ==
  IF i <= Len(s) /\ IsDigit(s[i]) THEN 1 + DigitRun(s, i + 1) ELSE 0

RECURSIVE DecimalValue(_)
DecimalValue(s) ==
  IF s = <<>> THEN 0
  ELSE 10 * DecimalValue(SubSeq(s, 1, Len(s) - 1)) + DigitVal(s[Len(s)])

NaN == [nan |-> TRUE, n |-> 0]
Num(n) == [nan |-> FALSE, n |-> n]

\* parseInt(v, 10): String(v), skip white space, an optional sign, then the
\* longest run of digits; NaN when that run is empty
ParseInt(v) ==
  LET str == StringOf(v)
      ws == CHOOSE k \in 0..Len(str) :
              /\ \A j \in 1..k : str[j] = " "
              /\ (k < Len(str) => str[k + 1] # " ")
      neg == ws < Len(str) /\ str[ws + 1] = "-"
      sgn == IF ws < Len(str) /\ str[ws + 1] \in {"-", "+"} THEN 1 ELSE 0
      run == DigitRun(str, ws + sgn + 1)
      val == DecimalValue(SubSeq(str, ws + sgn + 1, ws + sgn + run))
  IN IF run = 0 THEN NaN ELSE Num(IF neg THEN 0 - val ELSE val)

\* a - b on numbers
Minus(a, b) == IF a.nan \/ b.nan THEN NaN ELSE Num(a.n - b.n)

\* url.match(/id(\d+)/): the first place where "id" is followed by a digit;
\* the capture is the whole run of digits there.  Null when there is none.
MatchId(s) ==
  LET hits == {i \in 1..Len(s) :
                 /\ i + 2 <= Len(s)
                 /\ s[i] = "i" /\ s[i + 1] = "d" /\ IsDigit(s[i + 2])}
  IN IF hits = {} THEN Null
     ELSE LET i == CHOOSE h \in hits : \A g \in hits : h <= g
          IN Str(SubSeq(s, i + 2, i + 1 + DigitRun(s, i + 2)))

\* s.replace(/#.*$/, '')
StripHash(s) ==
  IF IndexOf(s, "#") = 0 THEN s ELSE SubSeq(s, 1, IndexOf(s, "#") - 1)

\* s.substr(s.indexOf('#')); indexOf gives -1 when there is no "#", and
\* substr(-1) is the last character
SubstrFromHash(s) ==
  IF IndexOf(s, "#") = 0
  THEN (IF s = <<>> THEN <<>> ELSE SubSeq(s, Len(s), Len(s)))
  ELSE SubSeq(s, IndexOf(s, "#"), Len(s))

\* ------------------------------------------------------------------------
\* URLs: origin chunk, path chunk, then "?" query and "#" fragment
\* ------------------------------------------------------------------------
\* new URL(href).origin
Origin(u) == u[1]

\* location.search: from "?" up to the fragment, "" when the query is empty
Search(u) ==
  LET noHash == StripHash(u)
      q == IndexOf(noHash, "?")
  IN IF q = 0 \/ q = Len(noHash) THEN <<>> ELSE SubSeq(noHash, q, Len(noHash))

\* the fragment of u with its "#", "" when there is none
Hash(u) == IF IndexOf(u, "#") = 0 THEN <<>> ELSE SubstrFromHash(u)

\* the href after location.hash = h
SetHash(u, h) ==
  StripHash(u) \o (IF h # <<>> /\ h[1] = "#" THEN h ELSE <<"#">> \o h)

\* the browser navigates within the page, without a load, when the new URL
\* has a fragment and differs from the current one in the fragment at most
IsFragmentNavigation(cur, new) ==
  IndexOf(new, "#") # 0 /\ StripHash(new) = StripHash(cur)

\* ------------------------------------------------------------------------
\* Document head: a sequence of elements, each a record of its attributes
\* ------------------------------------------------------------------------
Meta(name, content) == [tag |-> "meta", name |-> name, content |-> content]
Link(rel, href, sizes) ==
  [tag |-> "link", rel |-> rel, href |-> href, sizes |-> sizes]
ManifestLink(href) == [tag |-> "link", rel |-> <<"manifest">>, href |-> href]

\* document.querySelector(`meta[name="${name}"]`) finds an element
HasMeta(h, name) ==
  \E i \in 1..Len(h) : h[i].tag = "meta" /\ h[i].name = name

\* createMeta without the look for an existing meta of that name
createMetaUnguarded(h, name, value) ==
  IF ~Truthy(value) THEN h
  ELSE Append(h, Meta(name, IF value = Bool(TRUE) THEN <<"yes">>
                            ELSE StringOf(value)))

\* createMeta(name, value) on head h
createMeta(h, name, value) ==
  IF ~Truthy(value) THEN h
  ELSE IF HasMeta(h, name) THEN h
  ELSE Append(h, Meta(name, IF value = Bool(TRUE) THEN <<"yes">>
                            ELSE StringOf(value)))

\* capable for the display mode standalone alone
capableStandaloneOnly(manifest) ==
  Get(manifest, "display") = Str(<<"standalone">>)

\* ['standalone', 'fullscreen'].indexOf(manifest['display']) !== -1
capable(manifest) ==
  Get(manifest, "display") \in {Str(<<"standalone">>), Str(<<"fullscreen">>)}

\* the five createMeta calls at the start of processManifest
createMetas(h, manifest) ==
  LET h1 == createMeta(h, <<"apple-mobile-web-app-capable">>,
                       Bool(capable(manifest)))
      h2 == createMeta(h1, <<"mobile-web-app-capable">>,
                       Bool(capable(manifest)))
      h3 == createMeta(h2, <<"apple-mobile-web-app-title">>,
                       OrElse(Get(manifest, "short_name"),
                              Get(manifest, "name")))
      h4 == createMeta(h3, <<"msapplication-starturl">>,
                       OrElse(Get(manifest, "start_url"), Str(<<"/">>)))
  IN createMeta(h4, <<"msapplication-TileColor">>,
                Get(manifest, "theme_color"))

\* an array of a manifest, [] when the key is absent
ArrayOf(manifest, key) ==
  IF Truthy(Get(manifest, key)) THEN Get(manifest, key).a ELSE <<>>

\* the forEach over the itunes entries of related_applications, from entry i
\* with the id found so far; thrown is set when app['url'] is read as a
\* string although it is absent
RECURSIVE itunesLoop(_, _, _)
itunesLoop(apps, i, itunes) ==
  IF i > Len(apps) THEN [itunes |-> itunes, thrown |-> FALSE]
  ELSE IF Get(apps[i], "platform") # Str(<<"itunes">>)
  THEN itunesLoop(apps, i + 1, itunes)
  ELSE IF Truthy(Get(apps[i], "id"))
  THEN itunesLoop(apps, i + 1, Get(apps[i], "id"))
  ELSE IF Get(apps[i], "url") = Undefined
  THEN [itunes |-> itunes, thrown |-> TRUE]
  ELSE LET match == MatchId(Get(apps[i], "url").s)
       IN itunesLoop(apps, i + 1, IF Truthy(match) THEN match ELSE itunes)

\* parseInt(icon.sizes, 10) of every element of the icons array
parsedSizes(icons) ==
  [i \in 1..Len(icons) |-> ParseInt(Get(icons[i], "sizes"))]

\* the comparator of icons.sort on two elements with the parsed sizes sa and
\* sb: parseInt(b.sizes, 10) - parseInt(a.sizes, 10)
compareIcons(sa, sb) == Minus(sb, sa)

\* what Array.prototype.sort makes of a comparator's result: NaN is +0
SortCompare(v) == IF v.nan THEN 0 ELSE v.n

\* the table of the comparisons of the elements whose parsed sizes are sz
CompareTable(sz) ==
  [i \in 1..Len(sz) |->
     [j \in 1..Len(sz) |-> SortCompare(compareIcons(sz[i], sz[j]))]]

\* the comparator is a consistent comparison function on n elements whose
\* comparisons are cmp (ECMAScript, Array.prototype.sort): equal, less and
\* greater are transitive
ConsistentComparator(cmp, n) ==
  \A i, j, k \in 1..n :
    /\ (cmp[i][j] = 0 /\ cmp[j][k] = 0 => cmp[i][k] = 0)
    /\ (cmp[i][j] < 0 /\ cmp[j][k] < 0 => cmp[i][k] < 0)
    /\ (cmp[i][j] > 0 /\ cmp[j][k] > 0 => cmp[i][k] > 0)

\* the arrays icons.sort(...) can leave of arr: with a consistent comparator
\* a rearrangement in which no element precedes one that sorts before it;
\* otherwise the order is implementation-defined, any rearrangement
SortOutcomes(arr) ==
  UNION {UNION {UNION {
    {[i \in 1..Len(arr) |-> arr[p[i]]] : p \in
       {q \in Permutations(1..Len(arr)) :
          consistent =>
            \A i, j \in 1..Len(arr) : i < j => cmp[q[i]][q[j]] <= 0}} :
    consistent \in {ConsistentComparator(cmp, Len(arr))}} :
    cmp \in {CompareTable(sz)}} :
    sz \in {parsedSizes(arr)}}

\* icons.forEach: one apple-touch-icon link per icon, appended in order
RECURSIVE appendIcons(_, _, _)
appendIcons(h, icons, i) ==
  IF i > Len(icons) THEN h
  ELSE appendIcons(
         Append(h, Link(<<"apple-touch-icon">>,
                        StringOf(Get(icons[i], "src")),
                        StringOf(Get(icons[i], "sizes")))),
         icons, i + 1)

\* the head processManifest leaves, given the order the sort produced, and
\* whether it threw before it got to the icons
translate(h, manifest, sorted) ==
  LET metas == createMetas(h, manifest)
      loop == itunesLoop(ArrayOf(manifest, "related_applications"), 1,
                         Undefined)
      withItunes ==
        IF Truthy(loop.itunes)
        THEN createMeta(metas, <<"apple-itunes-app">>,
                        Str(<<"app-id=">> \o StringOf(loop.itunes)))
        ELSE metas
  IN IF loop.thrown THEN [head |-> metas, thrown |-> TRUE]
     ELSE [head |-> appendIcons(withItunes, sorted, 1), thrown |-> FALSE]

\* ------------------------------------------------------------------------
\* State
\* ------------------------------------------------------------------------
storageKey == "pwacompat.js"
outKey == "pwacompat.js:out"

VARIABLES
  serviceWorker,      \* navigator.serviceWorker is there
  standalone,         \* navigator.standalone
  hasSessionStorage,  \* window.sessionStorage is there
  served,             \* the body the server gives for the manifest URL
  authorHead,         \* the head as the page's author wrote it
  anchors,            \* the hrefs of the page's <a> elements
  launchUrl,          \* the URL the home screen icon opens
  engineSort,         \* what the engine's sort leaves of each icons array
  head,               \* document.head.children
  localStorage,       \* window.localStorage
  sessionStorage,     \* window.sessionStorage
  href,               \* location.href
  navigating,         \* a navigation to href is under way, the page unloads
  runs,               \* executions of the script on this page
  xhrs,               \* requests sent from this page
  pending,            \* requests sent and not yet answered
  translatorCalls,    \* calls of processManifest on this page
  manifest,           \* the argument of the last call of processManifest
  listeners,          \* click listeners added to the document
  startUrl,           \* startUrl of the last first-load handling
  redirects,          \* first-load handlings in this session
  fault,              \* the last uncaught exception on this page
  ev,                 \* the target of the click dispatched in this step
  prevented           \* ev.preventDefault() was called in this step

env == <<serviceWorker, standalone, hasSessionStorage, served, authorHead,
         anchors, launchUrl, engineSort>>
page == <<head, runs, xhrs, pending, translatorCalls, manifest, listeners,
          fault>>
nav == <<href, navigating, sessionStorage, startUrl, redirects>>
vars == <<env, page, nav, localStorage, ev, prevented>>

\* document.head.querySelector('link[rel="manifest"]'), Undefined when the
\* head has none
manifestEl(h) ==
  IF \E i \in 1..Len(h) : h[i].tag = "link" /\ h[i].rel = <<"manifest">>
  THEN h[CHOOSE i \in 1..Len(h) :
           /\ h[i].tag = "link" /\ h[i].rel = <<"manifest">>
           /\ \A j \in 1..(i - 1) :
                ~(h[j].tag = "link" /\ h[j].rel = <<"manifest">>)]
  ELSE Undefined

\* JSON.parse(text) returns
CanParse(text) == text.t = "string" /\ "json" \in DOMAIN text
JSONparse(text) == text.json

\* ------------------------------------------------------------------------
\* iosStandalone and processManifest
\* ------------------------------------------------------------------------
\* window.location = url
AssignLocation(url) ==
  /\ href' = url
  /\ navigating' = ~IsFragmentNavigation(href, url)

\* the guard of the first-load handling without the look at the flag
skipFirstLoadNoFlag == ~hasSessionStorage

\* !window.sessionStorage || window.sessionStorage['loaded']
skipFirstLoad ==
  ~hasSessionStorage \/ Truthy(Get(sessionStorage, "loaded"))

\* the target with the operands of || exchanged
firstLoadTargetStartFirst(m, ls) ==
  OrElse(Get(m, "start_url"), Get(ls, outKey))

\* window.localStorage[storageKey + ':out'] || manifest['start_url']
firstLoadTarget(m, ls) == OrElse(Get(ls, outKey), Get(m, "start_url"))

\* the first-load handling, lines 143-156; ls is localStorage at its start
firstLoad(m, ls) ==
  IF skipFirstLoad
  THEN /\ localStorage' = ls
       /\ UNCHANGED nav
  ELSE LET target == firstLoadTarget(m, ls)
           ours == href \o Search(href)
       IN /\ sessionStorage' = Put(sessionStorage, "loaded", Str(<<"true">>))
          /\ redirects' = redirects + 1
          /\ startUrl' = target
          /\ localStorage' = Delete(ls, outKey)
          /\ IF ~Truthy(target) \/ StringOf(target) = ours
             THEN UNCHANGED <<href, navigating>>
             ELSE IF StripHash(StringOf(target)) = ours
             THEN /\ href' = SetHash(href, SubstrFromHash(StringOf(target)))
                  /\ UNCHANGED navigating
             ELSE AssignLocation(StringOf(target))

\* iosStandalone(manifest): add the click listener, then the first-load
\* handling
iosStandalone(m, ls) ==
  /\ listeners' = listeners + 1
  /\ firstLoad(m, ls)

\* processManifest(manifest); ls is localStorage at the call
processManifest(m, ls) ==
    \E r \in {translate(head, m, engineSort[ArrayOf(m, "icons")])} :
       /\ head' = r.head
       /\ translatorCalls' = translatorCalls + 1
       /\ manifest' = m
       /\ IF r.thrown
          THEN /\ fault' = "processManifest"
               /\ localStorage' = ls
               /\ UNCHANGED <<listeners, nav>>
          ELSE /\ fault' = fault
               /\ IF standalone
                  THEN iosStandalone(m, ls)
                  ELSE /\ localStorage' = ls
                       /\ UNCHANGED <<listeners, nav>>

\* ------------------------------------------------------------------------
\* Actions
\* ------------------------------------------------------------------------
\* fetchManifest that never takes the manifest from the cache
cachedManifestNever(ls, preferSkip) == Undefined

\* the manifest fetchManifest takes from the cache, Undefined when it goes on
\* to the request: lines 33-40
cachedManifest(ls, preferSkip) ==
  IF preferSkip /\ CanParse(Get(ls, storageKey))
  THEN JSONparse(Get(ls, storageKey))
  ELSE Undefined

\* The script runs: lines 19-30 and fetchManifest up to xhr.send()
RunScript ==
  /\ ~navigating
  /\ runs < MaxRuns
  /\ runs' = runs + 1
  /\ ev' = Undefined /\ prevented' = FALSE
  /\ UNCHANGED env
  /\ IF serviceWorker \/ manifestEl(head) = Undefined
        \/ manifestEl(head).href = <<>>
     THEN UNCHANGED <<head, xhrs, pending, translatorCalls, manifest,
                      listeners, fault, nav, localStorage>>
     ELSE IF Truthy(cachedManifest(localStorage, standalone))
     THEN /\ processManifest(cachedManifest(localStorage, standalone),
                             localStorage)
          /\ UNCHANGED <<xhrs, pending>>
     ELSE /\ xhrs' = xhrs + 1
          /\ pending' = pending + 1
          /\ UNCHANGED <<head, translatorCalls, manifest, listeners, fault,
                         nav, localStorage>>

\* xhr.onload: the response arrived
XhrLoad ==
  /\ ~navigating
  /\ pending > 0
  /\ pending' = pending - 1
  /\ ev' = Undefined /\ prevented' = FALSE
  /\ UNCHANGED <<env, runs, xhrs>>
  /\ IF ~CanParse(served)
     THEN /\ fault' = "JSON.parse"
          /\ UNCHANGED <<head, translatorCalls, manifest, listeners, nav,
                         localStorage>>
     ELSE \E saved \in BOOLEAN :
            processManifest(JSONparse(served),
                            IF saved THEN Put(localStorage, storageKey, served)
                            ELSE localStorage)

\* the request failed: onload is never called
XhrError ==
  /\ ~navigating
  /\ pending > 0
  /\ pending' = pending - 1
  /\ ev' = Undefined /\ prevented' = FALSE
  /\ UNCHANGED <<env, runs, xhrs, head, translatorCalls, manifest,
                 listeners, fault, nav, localStorage>>

\* the comparison of the whole URLs in place of the origins
crossOriginByHref(linked, location) == linked # location

\* linkedUrl.origin !== location.origin
crossOrigin(linked, location) == Origin(linked) # Origin(location)

\* the click listener of lines 130-141 on a click on target, and the
\* browser's default action when the listener did not prevent it
Click(target) ==
  /\ ~navigating
  /\ ev' = target
  /\ UNCHANGED <<env, head, runs, xhrs, pending, translatorCalls,
                 manifest, listeners, sessionStorage, startUrl, redirects>>
  /\ IF listeners > 0
     THEN IF target.tagName # "A"
          THEN /\ prevented' = FALSE
               /\ UNCHANGED <<fault, localStorage, href, navigating>>
          ELSE IF target.href = <<>>   \* new URL('') throws
          THEN /\ prevented' = FALSE
               /\ fault' = "new URL"
               /\ UNCHANGED <<localStorage, href, navigating>>
          ELSE IF crossOrigin(target.href, href)
          THEN /\ prevented' = FALSE
               /\ localStorage' = Put(localStorage, outKey, Str(href))
               /\ UNCHANGED <<fault, href, navigating>>
          ELSE /\ prevented' = TRUE
               /\ AssignLocation(target.href)
               /\ UNCHANGED <<fault, localStorage>>
     ELSE /\ prevented' = FALSE
          /\ UNCHANGED <<fault, localStorage>>
          \* no listener: a browser tab follows a same-origin link; a
          \* home screen app hands every link to the browser
          /\ IF /\ ~standalone
                /\ target.tagName = "A" /\ target.href # <<>>
                /\ Origin(target.href) = Origin(href)
             THEN AssignLocation(target.href)
             ELSE UNCHANGED <<href, navigating>>

\* the navigation completes: a new document at href, same session
PageLoad ==
  /\ navigating
  /\ navigating' = FALSE
  /\ head' = authorHead
  /\ runs' = 0 /\ xhrs' = 0 /\ pending' = 0 /\ translatorCalls' = 0
  /\ listeners' = 0
  /\ manifest' = Undefined
  /\ fault' = "none"
  /\ ev' = Undefined /\ prevented' = FALSE
  /\ UNCHANGED <<env, localStorage, href, sessionStorage, startUrl,
                 redirects>>

\* ------------------------------------------------------------------------
\* Inputs
\* ------------------------------------------------------------------------
OriginApp == "https://app.example"
OriginOther == "https://other.example"
UrlHome == <<OriginApp, "/home">>
UrlHomeSection == <<OriginApp, "/home", "#", "section">>
UrlHomeQuery == <<OriginApp, "/home", "?", "q=1">>
UrlPage == <<OriginApp, "/page">>
UrlExternal == <<OriginOther, "/">>

\* the elements a click can land on
Targets ==
  {[tagName |-> "DIV"]} \cup {[tagName |-> "A", href |-> u] : u \in anchors}

\* the user opens the app again: a new session with an empty session store
Launch ==
  /\ href' = launchUrl
  /\ navigating' = FALSE
  /\ sessionStorage' = EmptyObject
  /\ redirects' = 0
  /\ startUrl' = Undefined
  /\ head' = authorHead
  /\ runs' = 0 /\ xhrs' = 0 /\ pending' = 0 /\ translatorCalls' = 0
  /\ listeners' = 0
  /\ manifest' = Undefined
  /\ fault' = "none"
  /\ ev' = Undefined /\ prevented' = FALSE
  /\ UNCHANGED <<env, localStorage>>

\* sequences over S of length at most n
SeqsUpTo(S, n) == UNION {[1..k -> S] : k \in 0..n}

\* the object that has the keys K of record r
Restrict(r, K) == [k \in K |-> r[k]]

S192 == <<"1", "9", "2", "x", "1", "9", "2">>
S128 == <<"1", "2", "8", "x", "1", "2", "8">>
SAny == <<"a", "n", "y">>

\* icon descriptors; the last two have a sizes that is no number, and none
Icons ==
  {[src |-> Str(<<"NEW-192.png">>), sizes |-> Str(S192)],
   [src |-> Str(<<"logo-128.png">>), sizes |-> Str(S128)],
   [src |-> Str(<<"logo.svg">>), sizes |-> Str(SAny)],
   [src |-> Str(<<"logo.png">>)]}

\* the icons of the manifests with up to MaxIcons icons
ListIcons ==
  {[src |-> Str(<<"NEW-192.png">>), sizes |-> Str(S192)],
   [src |-> Str(<<"logo-128.png">>), sizes |-> Str(S128)],
   [src |-> Str(<<"logo.svg">>), sizes |-> Str(SAny)]}

\* related application descriptors
Apps ==
  {[platform |-> Str(<<"itunes">>), id |-> Str(<<"4", "2">>)],
   [platform |-> Str(<<"itunes">>),
    url |-> Str(<<"https://itunes.example/app/", "i", "d", "1", "2", "3",
                  "4", "5", "6", "?", "mt=8">>)],
   [platform |-> Str(<<"itunes">>)],
   [platform |-> Str(<<"play">>), id |-> Str(<<"com.example">>)]}

\* manifests that differ in the fields the meta tags come from
MetaManifests ==
  {Restrict([display |-> d, short_name |-> s, name |-> Str(<<"Name">>),
             start_url |-> Str(UrlHome), theme_color |-> Str(<<"red">>)], K) :
     d \in {Str(<<"standalone">>), Str(<<"fullscreen">>), Str(<<"browser">>)},
     s \in {Str(<<"Short">>), Str(<<>>)},
     K \in SUBSET {"display", "short_name", "name", "start_url",
                   "theme_color"}}

\* manifests that differ in related_applications and icons
ListManifests ==
  {[related_applications |-> Arr(apps)] : apps \in SeqsUpTo(Apps, MaxApps)}
    \cup {[icons |-> Arr(icons)] : icons \in SeqsUpTo(ListIcons, MaxIcons)}
    \cup {[related_applications |-> Arr(<<[platform |-> Str(<<"itunes">>)]>>),
           icons |-> Arr(<<icon>>)] : icon \in Icons}

\* manifests that differ in start_url, for the navigation; the last one
\* has an itunes entry with neither id nor url
StartManifests ==
  {[display |-> Str(<<"standalone">>)]}
    \cup {[display |-> Str(<<"standalone">>), start_url |-> Str(u)] :
            u \in {UrlHome, UrlHomeSection}}
    \cup {[start_url |-> Str(UrlPage),
           related_applications |->
             Arr(<<[platform |-> Str(<<"itunes">>)]>>)]}

ManifestHref == <<OriginApp, "/manifest.json">>

\* heads as authors write them
CapableExisting == Meta(<<"mobile-web-app-capable">>, <<"existing">>)
IconExisting == Link(<<"icon">>, <<"EXISTING-192.png">>, S192)
Heads ==
  {<<>>,
   <<ManifestLink(ManifestHref)>>,
   <<ManifestLink(ManifestHref), CapableExisting, IconExisting>>,
   <<Meta(<<"apple-mobile-web-app-title">>, <<"Mine">>),
     Meta(<<"msapplication-TileColor">>, <<"blue">>),
     ManifestLink(ManifestHref),
     Meta(<<"apple-mobile-web-app-capable">>, <<"no">>),
     Meta(<<"msapplication-starturl">>, <<"/mine">>),
     Meta(<<"apple-itunes-app">>, <<"app-id=1">>)>>}

\* a body that is not JSON
Garbage == Str(<<"<html>">>)

\* ------------------------------------------------------------------------
\* Specifications
\* ------------------------------------------------------------------------
\* the engine's sort is a function of the array: one of the outcomes for the
\* icons array of each manifest the page can get, the served and the cached
InitEngine ==
  LET texts == {served, Get(localStorage, storageKey)}
      arrays == {ArrayOf(JSONparse(t), "icons") : t \in {x \in texts : CanParse(x)}}
                  \cup {<<>>}
  IN engineSort \in
       {f \in [arrays -> UNION {SortOutcomes(a) : a \in arrays}] :
          \A a \in arrays : f[a] \in SortOutcomes(a)}

\* the state at the first launch of the app
InitPage ==
  /\ head = authorHead
  /\ sessionStorage = EmptyObject
  /\ href = launchUrl
  /\ navigating = FALSE
  /\ runs = 0 /\ xhrs = 0 /\ pending = 0 /\ translatorCalls = 0
  /\ manifest = Undefined
  /\ listeners = 0
  /\ startUrl = Undefined
  /\ redirects = 0
  /\ fault = "none"
  /\ ev = Undefined
  /\ prevented = FALSE

Next ==
  \/ RunScript
  \/ XhrLoad
  \/ XhrError
  \/ \E target \in Targets : Click(target)
  \/ PageLoad
  \/ Launch

\* the navigation: the manifests differ in start_url, the page has links
Init ==
  /\ serviceWorker = FALSE
  /\ standalone \in BOOLEAN
  /\ hasSessionStorage \in BOOLEAN
  /\ served \in {JSONText(m) : m \in StartManifests} \cup {Garbage}
  /\ authorHead = <<ManifestLink(ManifestHref)>>
  /\ anchors = {<<>>, UrlHomeSection, UrlPage, UrlExternal}
  /\ launchUrl \in {UrlHome, UrlHomeSection, UrlHomeQuery}
  /\ localStorage \in
       {EmptyObject} \cup
       {Put(EmptyObject, storageKey, c) :
          c \in {Garbage, JSONText(Null)}
                  \cup {JSONText(m) : m \in StartManifests \ {EmptyObject}}}
  /\ InitEngine
  /\ InitPage
Spec == Init /\ [][Next]_vars

\* the translation: the manifests differ in what is translated, the heads in
\* what the author has put there
InitTranslator ==
  /\ serviceWorker \in BOOLEAN
  /\ standalone \in BOOLEAN
  /\ hasSessionStorage = TRUE
  /\ served \in {JSONText(m) : m \in MetaManifests \cup ListManifests}
  /\ authorHead \in Heads
  /\ anchors = {}
  /\ launchUrl = UrlPage
  /\ localStorage = EmptyObject
  /\ InitEngine
  /\ InitPage
SpecTranslator == InitTranslator /\ [][Next]_vars

\* ------------------------------------------------------------------------
\* Properties of the translation (SpecTranslator)
\* ------------------------------------------------------------------------
\* the places of the head behind the author's elements
Created == (Len(authorHead) + 1)..Len(head)

TranslatedMetaNames ==
  {<<"apple-mobile-web-app-capable">>, <<"mobile-web-app-capable">>,
   <<"apple-mobile-web-app-title">>, <<"msapplication-starturl">>,
   <<"msapplication-TileColor">>, <<"apple-itunes-app">>}

IsIconLink(e) ==
  e.tag = "link" /\ e.rel \in {<<"icon">>, <<"apple-touch-icon">>}

\* the apple-touch-icon links behind the author's elements, in order
CreatedIconLinks ==
  LET IsTouchIcon(e) == e.tag = "link" /\ e.rel = <<"apple-touch-icon">>
  IN SelectSeq(SubSeq(head, Len(authorHead) + 1, Len(head)), IsTouchIcon)

\* C1: the author's elements stay as they are, and of each of the six meta
\* names the head holds at most one meta behind them, and none when the
\* author's head has a meta of that name, however often the Translator ran.
C1_MetaNeverDuplicated ==
  /\ Len(head) >= Len(authorHead)
  /\ SubSeq(head, 1, Len(authorHead)) = authorHead
  /\ \A n \in TranslatedMetaNames :
       LET made == {i \in Created : head[i].tag = "meta" /\ head[i].name = n}
       IN /\ Cardinality(made) <= 1
          /\ (\E i \in 1..Len(authorHead) :
                authorHead[i].tag = "meta" /\ authorHead[i].name = n)
               => made = {}

\* the Translator ran twice on a head that had mobile-web-app-capable, with a
\* manifest that asks for it, and made the other capability meta once
C1_Witness ==
  /\ translatorCalls = 2
  /\ \E i \in 1..Len(authorHead) : authorHead[i] = CapableExisting
  /\ Get(manifest, "display") = Str(<<"standalone">>)
  /\ \E i \in Created :
       head[i] = Meta(<<"apple-mobile-web-app-capable">>, <<"yes">>)

\* C2: no icon link is added for a sizes value for which the author's head
\* has an icon link, and no two icon links of the head agree in rel, href and
\* sizes.
C2_NoDuplicateIconLink ==
  /\ \A i \in 1..Len(authorHead), j \in Created :
       IsIconLink(head[i]) /\ IsIconLink(head[j])
         => head[i].sizes # head[j].sizes
  /\ \A i, j \in 1..Len(head) :
       i < j /\ IsIconLink(head[i]) /\ IsIconLink(head[j])
         => ~(/\ head[i].rel = head[j].rel
              /\ head[i].href = head[j].href
              /\ head[i].sizes = head[j].sizes)

\* C3: after one run of the Translator the apple-touch-icon links it added
\* are one per manifest icon, with href = src and sizes = sizes, and a link
\* with the larger parsed size comes before one with the smaller.
C3_IconLinksDescending ==
  translatorCalls = 1 =>
    LET links == CreatedIconLinks
        icons == ArrayOf(manifest, "icons")
    IN /\ Len(links) = Len(icons)
       /\ \E p \in Permutations(1..Len(icons)) :
            \A i \in 1..Len(icons) :
              /\ i <= Len(links)
              /\ links[i].href = StringOf(Get(icons[p[i]], "src"))
              /\ links[i].sizes = StringOf(Get(icons[p[i]], "sizes"))
       /\ \A i, j \in 1..Len(links) :
            (/\ i < j
             /\ ~ParseInt(Str(links[i].sizes)).nan
             /\ ~ParseInt(Str(links[j].sizes)).nan)
              => ParseInt(Str(links[i].sizes)).n
                   >= ParseInt(Str(links[j].sizes)).n

NoCapabilityMeta(h) ==
  \A i \in 1..Len(h) :
    h[i].tag = "meta" =>
      h[i].name \notin {<<"apple-mobile-web-app-capable">>,
                        <<"mobile-web-app-capable">>}

BothCapabilityMetas ==
  /\ \E i \in Created :
       head[i] = Meta(<<"apple-mobile-web-app-capable">>, <<"yes">>)
  /\ \E i \in Created :
       head[i] = Meta(<<"mobile-web-app-capable">>, <<"yes">>)

\* C4 as claimed: without capability metas of the author, display
\* "standalone" gives both capability metas with content "yes", and an absent
\* display or any other value gives neither.
C4_CapableOnlyStandalone ==
  (translatorCalls >= 1 /\ NoCapabilityMeta(authorHead)) =>
    IF Get(manifest, "display") = Str(<<"standalone">>)
    THEN BothCapabilityMetas
    ELSE NoCapabilityMeta(head)

\* C4 as amended: without capability metas of the author, display
\* "standalone" or "fullscreen" gives both capability metas with content
\* "yes", and an absent display or any other value gives neither.
C4_CapableStandaloneOrFullscreen ==
  (translatorCalls >= 1 /\ NoCapabilityMeta(authorHead)) =>
    IF Get(manifest, "display")
         \in {Str(<<"standalone">>), Str(<<"fullscreen">>)}
    THEN BothCapabilityMetas
    ELSE NoCapabilityMeta(head)

\* the Translator ran on a manifest with display "fullscreen" and made both
C4_Witness ==
  /\ translatorCalls >= 1
  /\ NoCapabilityMeta(authorHead)
  /\ Get(manifest, "display") = Str(<<"fullscreen">>)
  /\ BothCapabilityMetas

\* C9: whatever fields the manifest lacks, the Translator throws nothing and
\* makes the elements whose values are there: after one run there is a link
\* for every icon.
C9_TranslatorCompletes ==
  translatorCalls >= 1 =>
    /\ fault # "processManifest"
    /\ (translatorCalls = 1 =>
          Len(CreatedIconLinks) = Len(ArrayOf(manifest, "icons")))

\* ------------------------------------------------------------------------
\* Properties of the loader and of the navigation (Spec)
\* ------------------------------------------------------------------------
\* localStorage holds the text of a manifest under the storage key
CacheHasManifest ==
  LET c == Get(localStorage, storageKey)
  IN c.t = "string" /\ "json" \in DOMAIN c /\ "t" \notin DOMAIN c.json

\* C5: a request is sent only when the fast-path flag is unset or the cache
\* holds no manifest; with the flag set and a manifest in the cache, the run
\* of the script calls the Translator with that manifest and sends nothing;
\* the Translator is called at most once for each run of the script.
C5_CacheFastPath ==
  [][/\ xhrs' > xhrs => ~(standalone /\ CacheHasManifest)
     /\ (/\ runs' = runs + 1
         /\ ~serviceWorker
         /\ manifestEl(head) # Undefined
         /\ standalone
         /\ CacheHasManifest)
          => /\ translatorCalls' = translatorCalls + 1
             /\ manifest' = Get(localStorage, storageKey).json
             /\ xhrs' = xhrs
     /\ translatorCalls' + pending' <= runs']_vars

\* the script ran once in standalone mode and called the Translator with the
\* cached manifest without a request
C5_Witness ==
  /\ standalone
  /\ runs = 1
  /\ xhrs = 0
  /\ translatorCalls = 1
  /\ CacheHasManifest
  /\ manifest = Get(localStorage, storageKey).json

\* C6: the first-load handling runs at most once in a session: only with a
\* session store whose flag is unset, and it sets the flag; once the flag is
\* set, no load of the session runs it again and the location changes by
\* clicks alone.
C6_FirstLoadOncePerSession ==
  [][/\ redirects' <= 1
     /\ redirects' = redirects + 1
          => /\ hasSessionStorage
             /\ ~Truthy(Get(sessionStorage, "loaded"))
             /\ Truthy(Get(sessionStorage', "loaded"))
     /\ (Truthy(Get(sessionStorage, "loaded"))
           /\ sessionStorage' = sessionStorage)
          => /\ redirects' = redirects
             /\ (href' # href => ev' # Undefined)]_vars

\* the page the first-load handling navigated to has loaded and has run the
\* script, with no second first-load handling
C6_Witness ==
  /\ redirects = 1
  /\ ~navigating
  /\ translatorCalls >= 1
  /\ listeners >= 1
  /\ ev = Undefined
  /\ startUrl = Str(href)
  /\ StripHash(href) # StripHash(launchUrl)

\* C7: when the first-load handling finds a target that equals the current
\* URL up to the fragment, there is no navigation: the location takes the
\* target's fragment when the target has one and stays as it is otherwise.
C7_SameUrlChangesFragmentOnly ==
  [][(/\ redirects' = redirects + 1
      /\ Truthy(startUrl')
      /\ StripHash(StringOf(startUrl')) = StripHash(href))
       => /\ ~navigating'
          /\ href' = IF Hash(StringOf(startUrl')) = <<>> THEN href
                     ELSE StringOf(startUrl')]_vars

\* C8: with the click listener in place, a click on a link to another origin
\* is not prevented, leaves the location and puts the page's URL into the
\* marker; a click on a link to the same origin is prevented, assigns the
\* link's href to the location and leaves the marker.
C8_ClickHandler ==
  [][(/\ listeners > 0
      /\ ev' # Undefined
      /\ ev'.tagName = "A"
      /\ ev'.href # <<>>)
       => IF Origin(ev'.href) # Origin(href)
          THEN /\ ~prevented'
               /\ href' = href
               /\ navigating' = navigating
               /\ Get(localStorage', outKey) = Str(href)
          ELSE /\ prevented'
               /\ href' = ev'.href
               /\ Get(localStorage', outKey) = Get(localStorage, outKey)]_vars

\* a click on the link to the other origin has put the page's URL into the
\* marker
C8_Witness ==
  /\ standalone
  /\ listeners > 0
  /\ ev = [tagName |-> "A", href |-> UrlExternal]
  /\ ~prevented
  /\ ~navigating
  /\ Get(localStorage, outKey) = Str(href)

\* C10 as claimed: when the Translator has run on a page load in standalone
\* mode, the marker is gone, and the marker that was there is the target.
C10_MarkerGoneAfterLoad ==
  [][(standalone /\ translatorCalls' = translatorCalls + 1)
       => /\ outKey \notin DOMAIN localStorage'
          /\ (outKey \in DOMAIN localStorage
                => startUrl' = localStorage[outKey])]_vars

\* C10 as amended: the first-load handling takes the marker, when there is
\* one, in place of start_url as its target and leaves no marker; a run of
\* the Translator without the first-load handling leaves the marker as it is.
C10_MarkerTakenByFirstLoad ==
  [][/\ redirects' = redirects + 1
          => /\ outKey \notin DOMAIN localStorage'
             /\ startUrl' = IF outKey \in DOMAIN localStorage
                            THEN localStorage[outKey]
                            ELSE Get(manifest', "start_url")
     /\ (translatorCalls' = translatorCalls + 1 /\ redirects' = redirects)
          => Get(localStorage', outKey) = Get(localStorage, outKey)]_vars

\* the first-load handling has taken a marker, not the manifest's start_url
C10_Witness ==
  /\ redirects = 1
  /\ translatorCalls >= 1
  /\ startUrl # Undefined
  /\ startUrl # Get(manifest, "start_url")
  /\ outKey \notin DOMAIN localStorage
====
